---- MODULE Spec2Model ----
(***************************************************************************)
(* Obsidillama (src/main.ts): the chat panel (ChatView), its inference     *)
(* call, the note-context assembly and the settings tab with its           *)
(* persistence, as one state machine.                                      *)
(*                                                                         *)
(* Strings are sequences of tokens.  A token is an atomic piece of text:   *)
(* one of the two template markers, the replacement pattern "$&", a blank, *)
(* or a piece of ordinary text that contains no "{", "}", "$" and no       *)
(* blank.  Over this language concatenation never creates a marker that    *)
(* was not there, so token-level search and replace coincide with          *)
(* JavaScript's character-level ones.                                      *)
(***************************************************************************)
EXTENDS Integers, Sequences, FiniteSets, TLC

VARIABLES
    messages,      \* the message elements of messagesContainer, in DOM order
    inputEl,       \* inputEl.value
    isGenerating,  \* ChatView.isGenerating
    handlers,      \* the activations of handleSendMessage suspended at an await
    last,          \* the finished activation of the latest accepted submission
    lastNotice,    \* the text of the Notice shown last
    settings,      \* ChatPlugin.settings
    data,          \* the plugin's persisted record (loadData / saveData)
    pendingSaves,  \* the records of the saveData calls that have not completed yet
    submitted,     \* history: the typed text of every accepted submission
    replies,       \* history: how many accepted submissions got a reply appended
    written,       \* history: the value last written to each settings field
    saveCalls,     \* history: how many times saveSettings has been called
    now,           \* Date.now(), in milliseconds since the plugin was loaded
    ids,           \* the id of each message of `messages`, in the same order
    leafViews,     \* the view type of each leaf of the right sidebar
    activating,    \* the activations of activateView suspended at setViewState
    revealed,      \* the leaf workspace.revealLeaf was last called with
    opens          \* history: how many times 'Open Chat' has been activated

vars == <<messages, inputEl, isGenerating, handlers, last, lastNotice,
          settings, data, pendingSaves, submitted, replies, written, saveCalls,
          now, ids, leafViews, activating, revealed, opens>>

panelVars == <<messages, ids, inputEl, isGenerating, handlers, last, lastNotice,
               submitted, replies>>

workspaceVars == <<leafViews, activating, revealed, opens>>

settingsVars == <<settings, data, pendingSaves, written, saveCalls>>

(***************************************************************************)
(* Bounds of the model.                                                    *)
(***************************************************************************)
MaxEvents == 3

MaxSubmissions == 2

MaxSettingsChanges == 3

MaxHistorySubmissions == 6

\* 'Open Chat' activations
MaxActivations == 4

\* milliseconds the clock advances
MaxClock == 2

(***************************************************************************)
(* Text.                                                                   *)
(***************************************************************************)
CTX == "{context}"

PRM == "{prompt}"

AMP == "$&"

SP == " "

Undefined == <<"\\undefined">>

RECURSIVE TrimStart(_)
TrimStart(s) ==
    IF s # <<>> /\ Head(s) = SP THEN TrimStart(Tail(s)) ELSE s

RECURSIVE TrimEnd(_)
TrimEnd(s) ==
    IF s # <<>> /\ s[Len(s)] = SP THEN TrimEnd(SubSeq(s, 1, Len(s) - 1)) ELSE s

Trim(s) == TrimEnd(TrimStart(s))

\* String.prototype.indexOf, 1-based; 0 when the token does not occur
IndexOf(s, tok) ==
    IF \E i \in 1..Len(s) : s[i] = tok
    THEN CHOOSE i \in 1..Len(s) : s[i] = tok /\ \A j \in 1..(i - 1) : s[j] # tok
    ELSE 0

\* the replacement string of String.prototype.replace: "$&" stands for the match
Expand(repl, matched) ==
    [i \in 1..Len(repl) |-> IF repl[i] = AMP THEN matched ELSE repl[i]]

\* String.prototype.replace(pattern: string, replacement: string)
Replace(s, pat, repl) ==
    LET i == IndexOf(s, pat)
    IN  IF i = 0 THEN s
        ELSE SubSeq(s, 1, i - 1) \o Expand(repl, pat) \o SubSeq(s, i + 1, Len(s))

\* JavaScript truthiness of a string
Truthy(s) == s # <<>>

(***************************************************************************)
(* Settings (ChatPluginSettings) and their persistence.                    *)
(***************************************************************************)
DefaultEndpoint == "http://localhost:11434/api/generate"

DefaultContextPrompt ==
    <<"Consider the following note content as context for your response:\n\n",
      CTX, "\n\nNow answer the following question:\n", PRM>>

DEFAULT_SETTINGS ==
    [chatHistory    |-> <<>>,
     maxHistory     |-> 100,
     llamaEndpoint  |-> DefaultEndpoint,
     includeContext |-> TRUE,
     contextPrompt  |-> DefaultContextPrompt]

SettingsFields == DOMAIN DEFAULT_SETTINGS

\* the limits of the Maximum History slider: setLimits(10, 1000, 10)
SliderMin == 10

SliderMax == 1000

SliderStep == 10

SliderValues == {v \in SliderMin..SliderMax : (v - SliderMin) % SliderStep = 0}

\* loadData() of a plugin that has never saved
NoData == [null |-> TRUE]

\* a record saved by the revision that had no context settings yet
LegacyData ==
    [chatHistory   |-> <<>>,
     maxHistory    |-> 50,
     llamaEndpoint |-> "http://localhost:8080/api/generate"]

\* a record saved by the settings tab of this revision
CustomData ==
    [chatHistory    |-> <<>>,
     maxHistory     |-> 200,
     llamaEndpoint  |-> "http://localhost:8080/api/generate",
     includeContext |-> FALSE,
     contextPrompt  |-> <<"Q:", PRM>>]

\* Object.assign({}, DEFAULT_SETTINGS, await this.loadData())
LoadSettings(d) ==
    IF d = NoData THEN DEFAULT_SETTINGS
    ELSE [f \in SettingsFields \cup DOMAIN d |->
             IF f \in DOMAIN d THEN d[f] ELSE DEFAULT_SETTINGS[f]]

\* saveSettings(): saveData(this.settings) takes the record as it is at the call
SaveSettings(s, queue) == Append(queue, s)

(***************************************************************************)
(* The values the environment supplies.                                    *)
(***************************************************************************)
\* what the user has typed when Send is clicked or Enter is pressed
UserInputs == { <<>>, <<SP>>, <<SP, "hello", SP>>, <<"hi">> }

\* the text vault.read() returns
Documents == { <<"doc">>, <<>>, <<"a", PRM, "b">>, <<AMP>> }

\* the templates typed into the Context Prompt Template text area
Templates == { <<"CTX:", CTX, " Q:", PRM>> }

\* the URLs typed into the LLAMA Endpoint field
Endpoints == { "http://localhost:8080/api/generate" }

\* the positions the Maximum History slider is moved to
SliderMoves == {v \in SliderValues : v = SliderMin}

\* the persisted record the plugin finds at startup
InitialData == { NoData, LegacyData, CustomData }

\* HTTP status codes of the endpoint's answer
Statuses == { 200, 500 }

\* the bodies of an answer with a success status
Bodies == { "{\"response\":\"hi\"}", "{\"error\":\"model not found\"}", "<html>" }

\* the workspace as getCurrentNoteContent finds it: the active Markdown view
\* and the leaves of type 'markdown'
NullView == [isMarkdownView |-> FALSE, file |-> "null"]

NoteView == [isMarkdownView |-> TRUE, file |-> "note.md"]

EmptyView == [isMarkdownView |-> TRUE, file |-> "null"]

DeferredView == [isMarkdownView |-> FALSE, file |-> "note.md"]

\* no document view is open at all
NoWorkspace == [activeView |-> NullView, markdownLeaves |-> <<>>]

Workspaces ==
    { NoWorkspace,
      [activeView |-> NoteView, markdownLeaves |-> <<NoteView>>],
      [activeView |-> EmptyView, markdownLeaves |-> <<EmptyView>>],
      [activeView |-> NullView, markdownLeaves |-> <<DeferredView, NoteView>>],
      [activeView |-> NullView, markdownLeaves |-> <<NoteView, DeferredView>>] }

(***************************************************************************)
(* ChatView.                                                               *)
(***************************************************************************)
BusyNotice == <<"Please wait for the current response to complete">>

NoActiveDocumentNotice == <<"Please open a note to use as context">>

NoNotice == <<>>

NoError == [name |-> "", message |-> <<>>]

NoRequest == [url |-> "", model |-> "", prompt |-> <<>>, stream |-> FALSE]

\* an activation of handleSendMessage: where it is suspended and its locals
\*   pc          "read": at await vault.read (line 118); "fetch": at await fetch
\*               (line 186); "json": at await response.json() (line 202);
\*               "replied" / "failed": finished through line 174 / line 177
\*   content     the local content (line 133)
\*   lookup      what getCurrentNoteContent found: "disabled" (not called),
\*               "noView", "noFile", "read", "readFailed"
\*   noteContent the text vault.read returned
\*   template    settings.contextPrompt when vault.read resolved (line 156)
\*   finalPrompt the local finalPrompt as passed at line 167
\*   request     the request passed to fetch
\*   status      response.status (0 before fetch has resolved)
\*   calls       how many times this activation has called fetch
\*   notices     the notices this activation has shown
\*   error       the error caught at line 175
NoActivation ==
    [pc |-> "none", content |-> <<>>, lookup |-> "disabled", noteContent |-> <<>>,
     template |-> <<>>, finalPrompt |-> <<>>, request |-> NoRequest, status |-> 0,
     calls |-> 0,
     notices |-> {}, error |-> NoError]

\* lines 85-104 of getCurrentNoteContent: the view whose file is read
ResolveView(w) ==
    IF w.activeView # NullView THEN w.activeView
    ELSE IF Len(w.markdownLeaves) > 0
         THEN LET lastMarkdownLeaf == w.markdownLeaves[Len(w.markdownLeaves)]
              IN  IF lastMarkdownLeaf.isMarkdownView THEN lastMarkdownLeaf
                  ELSE NullView
         ELSE NullView

\* lines 106-118 of getCurrentNoteContent, up to the await
Lookup(w) ==
    LET activeView == ResolveView(w)
    IN  IF activeView = NullView THEN "noView"
        ELSE IF activeView.file = "null" THEN "noFile"
        ELSE "read"

\* a getCurrentNoteContent that returns null without a notice
LookupNoticesNone(lookup) == {}

\* lines 106-109: the notice getCurrentNoteContent shows
LookupNotices(lookup) ==
    IF lookup = "noView" THEN {NoActiveDocumentNotice} ELSE {}

\* an addMessage that inserts at the top of the container
AddMessageOnTop(msgs, message) == <<message>> \o msgs

\* addMessage: one more message element at the end of messagesContainer
AddMessage(msgs, message) == Append(msgs, message)

\* a guard that lets every submission through
NeverBusy == FALSE

\* line 128: the guard of handleSendMessage
Busy == isGenerating

\* lines 156-158: the template with the note and the user's text spliced in
BuildPrompt(template, noteContent, content) ==
    Replace(Replace(template, CTX, noteContent), PRM, content)

\* a prompt built from the template whether or not a note was read
FinalPromptAlwaysTemplate(template, haveNote, noteContent, content) ==
    BuildPrompt(template, noteContent, content)

\* lines 154-162: the prompt for a note content that may be null
FinalPrompt(template, haveNote, noteContent, content) ==
    IF haveNote /\ Truthy(noteContent)
    THEN BuildPrompt(template, noteContent, content)
    ELSE content

\* lines 186-196: the request getLLAMAResponse hands to fetch
Request(prompt) ==
    [url |-> settings.llamaEndpoint, model |-> "llama2", prompt |-> prompt,
     stream |-> FALSE]

\* line 167 up to the await at line 186
CallLLAMA(h, prompt) ==
    [h EXCEPT !.pc = "fetch", !.finalPrompt = prompt, !.request = Request(prompt),
              !.calls = @ + 1]

\* String(error), as in 'Error getting response from LLAMA: ' + error
ErrorToString(e) == <<e.name, ": ">> \o e.message

ErrorNotice(e) == <<"Error getting response from LLAMA: ">> \o ErrorToString(e)

\* line 199
HttpError(status) ==
    [name |-> "Error", message |-> <<"HTTP error! status: ", ToString(status)>>]

\* the error fetch rejects with when the transport fails
NetworkError == [name |-> "TypeError", message |-> <<"Failed to fetch">>]

\* a success test without the upper limit
OkFrom200(status) == status >= 200

\* response.ok
Ok(status) == status \in 200..299

\* response.json(): the parsed body, or the error it rejects with
JsonParse(body) ==
    CASE body = "{\"response\":\"hi\"}" ->
            [ok |-> TRUE, keys |-> {"response"}, response |-> <<"hi">>]
      [] body = "{\"error\":\"model not found\"}" ->
            [ok |-> TRUE, keys |-> {"error"}, response |-> Undefined]
      [] OTHER ->
            [ok |-> FALSE, keys |-> {}, response |-> Undefined]

\* line 204: data.response
ResponseOf(parsed) ==
    IF "response" \in parsed.keys THEN parsed.response ELSE Undefined

JsonSyntaxError ==
    [name |-> "SyntaxError", message |-> <<"Unexpected token < in JSON">>]

\* lines 137 and 169: Date.now().toString(), the decimal numeral of the clock
MessageId(t) == ToString(t)

\* the activations other than the i-th
Without(hs, i) == SubSeq(hs, 1, i - 1) \o SubSeq(hs, i + 1, Len(hs))

\* a catch block with no finally block after it
FailWithoutReset(hs, i, err) ==
    /\ lastNotice' = ErrorNotice(err)
    /\ last' = [hs[i] EXCEPT !.pc = "failed", !.error = err,
                             !.notices = @ \cup {ErrorNotice(err)}]
    /\ handlers' = Without(handlers, i)
    /\ UNCHANGED <<messages, ids, inputEl, isGenerating, submitted, replies, settingsVars, workspaceVars, now>>

\* lines 175-180: the catch block and the finally block
Fail(hs, i, err) ==
    /\ lastNotice' = ErrorNotice(err)
    /\ isGenerating' = FALSE
    /\ last' = [hs[i] EXCEPT !.pc = "failed", !.error = err,
                                   !.notices = @ \cup {ErrorNotice(err)}]
    /\ handlers' = Without(handlers, i)
    /\ UNCHANGED <<messages, ids, inputEl, submitted, replies, settingsVars, workspaceVars, now>>

\* lines 168-174 and the finally block
Reply(i, response) ==
    /\ messages' = AddMessage(messages, [sender |-> "assistant", content |-> response])
    /\ ids' = Append(ids, MessageId(now))
    /\ isGenerating' = FALSE
    /\ last' = [handlers[i] EXCEPT !.pc = "replied"]
    /\ handlers' = Without(handlers, i)
    /\ replies' = replies + 1
    /\ UNCHANGED <<inputEl, lastNotice, submitted, settingsVars, workspaceVars, now>>

\* Send is clicked or Enter is pressed with `typed` in the text area, the
\* workspace being w: handleSendMessage up to its first await that waits for
\* the vault or the network
HandleSendMessage(typed, w) ==
    IF Busy
    THEN /\ lastNotice' = BusyNotice
         /\ inputEl' = typed
         /\ UNCHANGED <<messages, ids, isGenerating, handlers, last, submitted, replies,
                        settingsVars, workspaceVars, now>>
    ELSE LET content == Trim(typed)
         IN  IF ~Truthy(content)
             THEN /\ inputEl' = typed
                  /\ UNCHANGED <<messages, ids, isGenerating, handlers, last, lastNotice,
                                 submitted, replies, settingsVars, workspaceVars, now>>
             ELSE LET lookup == IF settings.includeContext THEN Lookup(w)
                                ELSE "disabled"
                      h == [NoActivation EXCEPT
                               !.content = content,
                               !.lookup = lookup,
                               !.notices = LookupNotices(lookup)]
                  IN  /\ messages' = AddMessage(messages,
                                        [sender |-> "user", content |-> content])
                      /\ ids' = Append(ids, MessageId(now))
                      /\ inputEl' = <<>>
                      /\ isGenerating' = TRUE
                      /\ lastNotice' = IF LookupNotices(lookup) # {}
                                       THEN NoActiveDocumentNotice ELSE lastNotice
                      /\ handlers' = Append(handlers,
                             IF lookup = "read" THEN [h EXCEPT !.pc = "read"]
                             ELSE CallLLAMA(h, FinalPrompt(settings.contextPrompt,
                                                           FALSE, <<>>, content)))
                      /\ last' = NoActivation
                      /\ submitted' = Append(submitted, typed)
                      /\ UNCHANGED <<replies, settingsVars, workspaceVars, now>>

\* vault.read resolves with doc: lines 119-120, 154-167 and 185-186
ReadResolved(i, doc) ==
    /\ handlers[i].pc = "read"
    /\ LET h == [handlers[i] EXCEPT
                    !.noteContent = doc,
                    !.template = settings.contextPrompt]
       IN  handlers' = [handlers EXCEPT ![i] =
               CallLLAMA(h, FinalPrompt(settings.contextPrompt, TRUE, doc, h.content))]
    /\ UNCHANGED <<messages, ids, inputEl, isGenerating, last, lastNotice, submitted,
                   replies, settingsVars, workspaceVars, now>>

\* vault.read rejects: lines 121-123, 160-167 and 185-186
ReadRejected(i) ==
    /\ handlers[i].pc = "read"
    /\ LET h == [handlers[i] EXCEPT !.lookup = "readFailed"]
       IN  handlers' = [handlers EXCEPT ![i] =
               CallLLAMA(h, FinalPrompt(settings.contextPrompt, FALSE, <<>>, h.content))]
    /\ UNCHANGED <<messages, ids, inputEl, isGenerating, last, lastNotice, submitted,
                   replies, settingsVars, workspaceVars, now>>

\* fetch resolves with a response of the given status: lines 198-202
FetchResolved(i, status) ==
    /\ handlers[i].pc = "fetch"
    /\ IF Ok(status)
       THEN /\ handlers' = [handlers EXCEPT ![i].pc = "json", ![i].status = status]
            /\ UNCHANGED <<messages, ids, inputEl, isGenerating, last, lastNotice,
                           submitted, replies, settingsVars, workspaceVars, now>>
       ELSE Fail([handlers EXCEPT ![i].status = status], i, HttpError(status))

\* fetch rejects (connection refused, DNS failure, ...): lines 205-207
FetchRejected(i) ==
    /\ handlers[i].pc = "fetch"
    /\ Fail(handlers, i, NetworkError)

\* response.json() settles on the given body: lines 202-204, 168-174
JsonSettled(i, body) ==
    /\ handlers[i].pc = "json"
    /\ LET parsed == JsonParse(body)
       IN  IF ~parsed.ok THEN Fail(handlers, i, JsonSyntaxError)
           ELSE Reply(i, ResponseOf(parsed))

(***************************************************************************)
(* ChatSettingsTab and the persistence of the settings.                    *)
(***************************************************************************)
\* an onChange handler up to its await: the field is written and saved
Change(field, value) ==
    /\ settings' = [settings EXCEPT ![field] = value]
    /\ pendingSaves' = SaveSettings(settings', pendingSaves)
    /\ written' = [f \in DOMAIN written \cup {field} |->
                       IF f = field THEN value ELSE written[f]]
    /\ saveCalls' = saveCalls + 1
    /\ UNCHANGED <<data, panelVars, workspaceVars, now>>

OnChangeMaxHistory(value) == Change("maxHistory", value)

OnChangeLlamaEndpoint(value) == Change("llamaEndpoint", value)

OnChangeIncludeContext(value) == Change("includeContext", value)

OnChangeContextPrompt(value) == Change("contextPrompt", value)

\* a pending saveData completes; nothing orders the writes of overlapping
\* saveData calls, so any of them may be the next to reach the disk
SaveDataDone ==
    \E i \in 1..Len(pendingSaves) :
        /\ data' = pendingSaves[i]
        /\ pendingSaves' = Without(pendingSaves, i)
        /\ UNCHANGED <<settings, written, saveCalls, panelVars, workspaceVars, now>>

(***************************************************************************)
(* ChatPlugin: the 'Open Chat' ribbon icon and command.  The right sidebar *)
(* is the sequence of the view types of its leaves; a leaf is its index.   *)
(***************************************************************************)
VIEW_TYPE_CHAT == "chat-view"

\* the view type of a leaf nothing has been opened in
EmptyViewType == "empty"

\* leaf is null
NoLeaf == 0

\* workspace.getLeavesOfType(type), in workspace order
GetLeavesOfType(views, type) ==
    SelectSeq([i \in 1..Len(views) |-> i], LAMBDA i : views[i] = type)

\* what workspace.getRightLeaf(false) may return: null, a leaf of the sidebar
\* that shows nothing yet, or a leaf it creates
RightLeaves(views) ==
    {NoLeaf} \cup {i \in 1..Len(views) : views[i] = EmptyViewType} \cup {Len(views) + 1}

\* the sidebar once getRightLeaf has returned leaf
WithLeaf(views, leaf) ==
    IF leaf = Len(views) + 1 THEN Append(views, EmptyViewType) ELSE views

\* the leaf shows the chat view
Attach(views, leaf) == [views EXCEPT ![leaf] = VIEW_TYPE_CHAT]

\* lines 284-299: activateView up to the await of setViewState, or to its end
\* when there is nothing to wait for.  leaf is what getRightLeaf returns if
\* it is called; attached tells whether setViewState installs the view
\* before it first yields or only when it completes.
ActivateView(leaf, attached) ==
    LET leaves == GetLeavesOfType(leafViews, VIEW_TYPE_CHAT)
    IN  /\ opens' = opens + 1
        /\ IF Len(leaves) > 0
           THEN /\ revealed' = leaves[1]
                /\ UNCHANGED <<leafViews, activating>>
           ELSE IF leaf = NoLeaf
                THEN UNCHANGED <<leafViews, activating, revealed>>
                ELSE /\ leafViews' = IF attached
                                     THEN Attach(WithLeaf(leafViews, leaf), leaf)
                                     ELSE WithLeaf(leafViews, leaf)
                     /\ activating' = Append(activating, leaf)
                     /\ UNCHANGED revealed
        /\ UNCHANGED <<panelVars, settingsVars, now>>

\* setViewState resolves for the i-th suspended activation: lines 293-298
SetViewStateResolved(i) ==
    /\ leafViews' = Attach(leafViews, activating[i])
    /\ revealed' = activating[i]
    /\ activating' = Without(activating, i)
    /\ UNCHANGED <<opens, panelVars, settingsVars, now>>

(***************************************************************************)
(* The specifications.                                                     *)
(***************************************************************************)
InitFrom(stored) ==
    /\ messages = <<>>
    /\ inputEl = <<>>
    /\ isGenerating = FALSE
    /\ handlers = <<>>
    /\ last = NoActivation
    /\ lastNotice = NoNotice
    /\ data \in stored
    /\ settings = LoadSettings(data)
    /\ pendingSaves = <<>>
    /\ submitted = <<>>
    /\ replies = 0
    /\ written = IF data = NoData THEN <<>> ELSE data
    /\ saveCalls = 0
    /\ now = 0
    /\ ids = <<>>
    /\ leafViews = <<>>
    /\ activating = <<>>
    /\ revealed = NoLeaf
    /\ opens = 0

\* the plugin is loaded for the first time
Init == InitFrom({NoData})

\* the plugin is loaded, for the first time or over an earlier record
InitSettings == InitFrom(InitialData)

\* Send is clicked or Enter is pressed
Submit == \E typed \in UserInputs, w \in Workspaces : HandleSendMessage(typed, w)

\* the submissions accepted and the settings changes made so far
Events == Len(submitted) + saveCalls

ReadDone == \E i \in 1..Len(handlers), doc \in Documents : ReadResolved(i, doc)

ReadFailed == \E i \in 1..Len(handlers) : ReadRejected(i)

FetchDone == \E i \in 1..Len(handlers), status \in Statuses : FetchResolved(i, status)

FetchFailed == \E i \in 1..Len(handlers) : FetchRejected(i)

JsonDone == \E i \in 1..Len(handlers), body \in Bodies : JsonSettled(i, body)

ChangeMaxHistory == \E v \in SliderMoves : OnChangeMaxHistory(v)

ChangeLlamaEndpoint == \E v \in Endpoints : OnChangeLlamaEndpoint(v)

\* a click on the toggle reports the opposite of what it shows
ChangeIncludeContext == \E v \in {~settings.includeContext} : OnChangeIncludeContext(v)

ChangeContextPrompt == \E v \in Templates : OnChangeContextPrompt(v)

Next ==
    \/ Events < MaxEvents /\ Submit
    \/ ReadDone
    \/ ReadFailed
    \/ FetchDone
    \/ FetchFailed
    \/ JsonDone
    \/ Events < MaxEvents /\ ChangeMaxHistory
    \/ Events < MaxEvents /\ ChangeLlamaEndpoint
    \/ Events < MaxEvents /\ ChangeIncludeContext
    \/ Events < MaxEvents /\ ChangeContextPrompt
    \/ SaveDataDone

Spec == Init /\ [][Next]_vars

\* the panel alone, over any record found at startup
NextPanel ==
    \/ Len(submitted) < MaxSubmissions /\ Submit
    \/ ReadDone
    \/ ReadFailed
    \/ FetchDone
    \/ FetchFailed
    \/ JsonDone

\* vault.read, fetch and response.json() each settle in the end
FairSpec ==
    /\ InitSettings
    /\ [][NextPanel]_vars
    /\ WF_vars(ReadDone \/ ReadFailed)
    /\ WF_vars(FetchDone \/ FetchFailed)
    /\ WF_vars(JsonDone)

\* the settings tab alone, over any record found at startup
NextSettings ==
    \/ saveCalls < MaxSettingsChanges /\ ChangeMaxHistory
    \/ saveCalls < MaxSettingsChanges /\ ChangeLlamaEndpoint
    \/ saveCalls < MaxSettingsChanges /\ ChangeIncludeContext
    \/ saveCalls < MaxSettingsChanges /\ ChangeContextPrompt
    \/ SaveDataDone

SpecSettings == InitSettings /\ [][NextSettings]_vars

\* a long conversation: one text, no document view, the slider at its minimum
NextHistory ==
    \/ /\ Len(submitted) < MaxHistorySubmissions
       /\ HandleSendMessage(<<"hi">>, NoWorkspace)
    \/ \E i \in 1..Len(handlers) : FetchResolved(i, 200)
    \/ FetchFailed
    \/ \E i \in 1..Len(handlers) : JsonSettled(i, "{\"response\":\"hi\"}")
    \/ saveCalls < 1 /\ OnChangeMaxHistory(SliderMin)
    \/ SaveDataDone

SpecHistory == Init /\ [][NextHistory]_vars

\* lines 263-274: the ribbon icon is clicked or the command is run
OpenChat == \E leaf \in RightLeaves(leafViews), attached \in BOOLEAN :
                ActivateView(leaf, attached)

SetViewStateDone == \E i \in 1..Len(activating) : SetViewStateResolved(i)

\* the ribbon icon and the command alone
NextView ==
    \/ opens < MaxActivations /\ OpenChat
    \/ SetViewStateDone

SpecView == Init /\ [][NextView]_vars

\* a millisecond passes: Date.now() never decreases, and returns the same
\* value to every call made before the next millisecond begins
Tick ==
    /\ now' = now + 1
    /\ UNCHANGED <<panelVars, settingsVars, workspaceVars>>

\* the panel alone, with the clock running
NextClock ==
    \/ Len(submitted) < MaxSubmissions /\ Submit
    \/ ReadDone
    \/ ReadFailed
    \/ FetchDone
    \/ FetchFailed
    \/ JsonDone
    \/ now < MaxClock /\ Tick

SpecClock == Init /\ [][NextClock]_vars

(***************************************************************************)
(* Properties.                                                             *)
(***************************************************************************)
\* the activations of handleSendMessage the state knows of
Activations ==
    {handlers[i] : i \in 1..Len(handlers)} \cup
    (IF last.pc = "none" THEN {} ELSE {last})

\* the requests of this panel the endpoint has not answered in full
InFlight == Cardinality({i \in 1..Len(handlers) : handlers[i].pc \in {"fetch", "json"}})

\* every accepted submission has run to its end
AllProcessed == handlers = <<>>

\* C1: the panel never has more than one inference request in flight, and a
\* submission made while a reply is awaited appends no message and starts no
\* activation (hence no network call).
C1_OneRequestAtATime ==
    /\ [](InFlight <= 1)
    /\ [][\A typed \in UserInputs, w \in Workspaces :
            (isGenerating /\ HandleSendMessage(typed, w)) =>
                (messages' = messages /\ handlers' = handlers)]_vars

C1_Witness ==
    /\ isGenerating
    /\ InFlight = 1
    /\ lastNotice = BusyNotice
    /\ Len(messages) = 1

\* the messages are user, assistant, user, assistant, ..., two per accepted
\* submission, the k-th user message carrying the k-th submitted text, trimmed
TwoPerSubmission ==
    /\ Len(messages) = 2 * Len(submitted)
    /\ \A k \in 1..Len(messages) :
          messages[k].sender = IF k % 2 = 1 THEN "user" ELSE "assistant"
    /\ \A k \in 1..Len(submitted) :
          2 * k - 1 <= Len(messages) => messages[2 * k - 1].content = Trim(submitted[k])

\* C2 as claimed: once N accepted submissions have been processed to
\* completion the messages are 2N, alternating, in submission order.
C2_Original == AllProcessed => TwoPerSubmission

\* C2 as amended: once N accepted submissions have been processed to
\* completion and each of them was answered (no inference call failed), the
\* messages are 2N, alternating, in submission order.
C2_Amended == (AllProcessed /\ replies = Len(submitted)) => TwoPerSubmission

C2_Witness ==
    /\ AllProcessed
    /\ Len(submitted) = 2
    /\ replies = 2
    /\ submitted[1] # submitted[2]

\* C3: under FairSpec, whenever the panel awaits a reply it is idle again
\* later, and the flag is never left set once no activation is running.
C3_ReturnsToIdle ==
    /\ [](handlers = <<>> => ~isGenerating)
    /\ (isGenerating ~> ~isGenerating)

C3_Witness ==
    /\ ~isGenerating
    /\ handlers = <<>>
    /\ last.pc = "failed"
    /\ last.error = JsonSyntaxError

\* an accepted submission that found context inclusion on and no view to read
SawNoView(a) == a.lookup = "noView"

\* C4 as claimed: with context inclusion on and no document view open at
\* all, the submission shows the notice and calls the endpoint not at all.
C4_Original ==
    /\ Lookup(NoWorkspace) = "noView"
    /\ \A a \in Activations :
          SawNoView(a) => (NoActiveDocumentNotice \in a.notices /\ a.calls = 0)

\* C4 as amended: with context inclusion on and no document view open at
\* all, the submission shows the notice and still calls the endpoint, exactly
\* once, with the user's text as the prompt.
C4_Amended ==
    /\ Lookup(NoWorkspace) = "noView"
    /\ \A a \in Activations :
          SawNoView(a) =>
              /\ NoActiveDocumentNotice \in a.notices
              /\ a.calls = 1
              /\ a.pc \in {"fetch", "json", "replied", "failed"}
              /\ a.request.prompt = a.content

C4_Witness ==
    /\ SawNoView(last)
    /\ last.pc = "replied"
    /\ Len(messages) = 2

\* C5: with context inclusion on and no document open, the prompt handed to
\* the inference client is the user's submitted (trimmed) text with no
\* template applied, and the 'Please open a note' notice is shown.
C5_RawPromptAndNotice ==
    \A a \in Activations :
        a.lookup = "noView" =>
            /\ a.finalPrompt = Trim(submitted[Len(submitted)])
            /\ a.request.prompt = a.finalPrompt
            /\ NoActiveDocumentNotice \in a.notices
            /\ (a.pc \in {"fetch", "json"} /\ lastNotice # BusyNotice
                    => lastNotice = NoActiveDocumentNotice)

C5_Witness ==
    /\ Len(handlers) = 1
    /\ handlers[1].lookup = "noView"
    /\ handlers[1].pc = "fetch"
    /\ handlers[1].content = <<"hello">>
    /\ settings.contextPrompt # DefaultContextPrompt
    /\ lastNotice = NoActiveDocumentNotice

RECURSIVE Concat(_)
Concat(parts) == IF parts = <<>> THEN <<>> ELSE Head(parts) \o Concat(Tail(parts))

\* the template with its own first {context} replaced by the document text
\* and its own first {prompt} replaced by the user's text
Substituted(template, doc, user) ==
    Concat([i \in 1..Len(template) |->
               IF i = IndexOf(template, CTX) THEN doc
               ELSE IF i = IndexOf(template, PRM) THEN user
               ELSE <<template[i]>>])

\* C6: whenever the document text was read, the final prompt is the template
\* with its first {context} replaced by the document text and its first
\* {prompt} replaced by the user's text, whatever the document text is.
C6_TemplateSubstitution ==
    \A a \in Activations :
        (a.lookup = "read" /\ a.pc \in {"fetch", "json", "replied", "failed"}) =>
            a.finalPrompt = Substituted(a.template, a.noteContent, a.content)

\* C7: no assistant message is appended for an answer whose body lacks the
\* response field or is not valid JSON.
C7_MalformedResponse ==
    \A k \in 1..Len(messages) :
        messages[k].sender = "assistant" => messages[k].content # Undefined

\* C8: an answer with a non-2xx status makes the submission fail with the
\* error 'HTTP error! status: <status>'; the notice shown carries that text,
\* no assistant message is appended, the user message stays the last one,
\* the panel is idle and fetch was called exactly once.
C8_BadStatus ==
    \A a \in Activations :
        (a.status # 0 /\ a.status \notin 200..299) =>
            /\ a.pc = "failed"
            /\ a.error = [name |-> "Error",
                          message |-> <<"HTTP error! status: ", ToString(a.status)>>]
            /\ lastNotice = <<"Error getting response from LLAMA: ", "Error", ": ",
                              "HTTP error! status: ", ToString(a.status)>>
            /\ lastNotice \in a.notices
            /\ ~isGenerating
            /\ handlers = <<>>
            /\ a.calls = 1
            /\ Len(messages) = Len(submitted) + replies
            /\ messages[Len(messages)] = [sender |-> "user", content |-> a.content]

C8_Witness ==
    /\ last.status = 500
    /\ last.pc = "failed"
    /\ Len(messages) = 3

\* C9: the panel never keeps more messages than the configured Maximum
\* History.
C9_HistoryCap == Len(messages) <= settings.maxHistory

\* C10: once every save has completed after at least one onChange, the
\* persisted record equals the settings in memory, and loading it yields the
\* last value written for every field written and the default for the others.
C10_SettingsRoundTrip ==
    (pendingSaves = <<>> /\ saveCalls > 0) =>
        /\ data = settings
        /\ \A f \in DOMAIN written : LoadSettings(data)[f] = written[f]
        /\ \A f \in SettingsFields \ DOMAIN written :
              LoadSettings(data)[f] = DEFAULT_SETTINGS[f]

\* the leaves of the workspace that show the chat panel
ChatPanels == {i \in 1..Len(leafViews) : leafViews[i] = VIEW_TYPE_CHAT}

\* C11: after any sequence of 'Open Chat' activations, a second one arriving
\* while the first still awaits setViewState included, at most one chat panel
\* exists in the workspace.
C11_AtMostOnePanel == Cardinality(ChatPanels) <= 1

\* C12: the messages of a panel have pairwise distinct ids, for every clock
\* that never decreases, a user message and its reply (or two consecutive
\* messages) created within the same millisecond included.
C12_DistinctIds ==
    /\ Len(ids) = Len(messages)
    /\ \A i, j \in 1..Len(ids) : i # j => ids[i] # ids[j]

====
